---- MODULE Spec2Model ----
(***************************************************************************)
(* Playback session of the text-to-speech editor (src/App.tsx).            *)
(*                                                                         *)
(* Units.  The audio context clock (currentTime) counts steps of 10        *)
(* seconds, the playback speed is kept in tenths (10 = 1.0x, 20 = 2.0x)    *)
(* and buffer offsets are whole seconds, so that                           *)
(*   (currentTime - playbackStartedAt) * playbackSpeed                     *)
(* is the elapsed buffer time in seconds, exactly as in getCurrentOffset.  *)
(* All the values used are exact in IEEE doubles as well.                  *)
(*                                                                         *)
(* React state (text, config, isPlaying, isLoading, playbackPosition) is   *)
(* read by a handler from the render it was created                        *)
(* in: a synchronous handler sees the current state, the continuation of   *)
(* an awaited synthesis call sees the state captured when the request was  *)
(* made.  Refs (audioBufferRef, sourceRef, ...) are always read live.      *)
(* Several setState calls of one handler are applied together, last wins.  *)
(***************************************************************************)
EXTENDS Integers, Sequences, FiniteSets, TLC

\* ---------------------------------------------------------------- bounds
MaxClock == 2
MaxSources == 3
MaxInFlight == 2
MaxSteps == 9
MaxFrames == 2
LiveSteps == 6

Texts == {<<>>, <<" ">>, <<"a">>}
Voices == {"Kore", "Puck"}
Speeds == {10, 20}
Durations == {10, 20}
SkipSeconds == {-10, 10}

\* ---------------------------------------------------------------- state
VARIABLES
  text,                  \* useState text
  voiceName,             \* config.voiceName
  playbackSpeed,         \* config.playbackSpeed (tenths)
  isPlaying,             \* useState
  isLoading,             \* useState
  playbackPosition,      \* useState, seconds
  playbackStartedAt,     \* playbackStartedAtRef.current (context time)
  playbackOffsetAtStart, \* playbackOffsetAtStartRef.current
  lastGeneratedText,     \* lastGeneratedTextRef.current
  lastGeneratedVoice,    \* lastGeneratedVoiceRef.current ("null" = null)
  audioContext,          \* audioContextRef.current # null
  sourceRef,             \* sourceRef.current: index into sources, 0 = null
  audioBuffer,           \* audioBufferRef.current, Null or a buffer
  currentTime,           \* audioContextRef.current.currentTime
  sources,               \* every AudioBufferSourceNode created so far
  calls,                 \* generateSpeech calls in flight, with their closures
  fresh,                 \* history: a request made with the current (text,
                         \* voice) has synthesized and neither was edited
                         \* since that request was made
  steps,                 \* number of events (handler runs, callbacks, clock
                         \* steps) of the session so far
  wavInput,              \* the buffer argument of audioBufferToWav
  wavBlob                \* the Blob audioBufferToWav returned, Null before

vars == <<text, voiceName, playbackSpeed, isPlaying, isLoading,
          playbackPosition, playbackStartedAt, playbackOffsetAtStart,
          lastGeneratedText, lastGeneratedVoice, audioContext, sourceRef,
          audioBuffer, currentTime, sources, calls, fresh, steps,
          wavInput, wavBlob>>

\* the variables by what writes them
settings == <<text, voiceName, playbackSpeed, fresh>>
cache == <<audioBuffer, lastGeneratedText, lastGeneratedVoice>>
playback == <<isPlaying, playbackPosition, sources, sourceRef, playbackStartedAt,
              playbackOffsetAtStart, audioContext>>
synthesis == <<isLoading, calls>>
encoder == <<wavInput, wavBlob>>
session == <<settings, cache, playback, synthesis, currentTime, steps>>

Null == [null |-> TRUE]

Min(a, b) == IF a < b THEN a ELSE b
Max(a, b) == IF a > b THEN a ELSE b

\* String.prototype.trim on a sequence of characters
RECURSIVE TrimStart(_)
TrimStart(s) == IF s # <<>> /\ Head(s) = " " THEN TrimStart(Tail(s)) ELSE s
RECURSIVE TrimEnd(_)
TrimEnd(s) ==
  IF s # <<>> /\ s[Len(s)] = " " THEN TrimEnd(SubSeq(s, 1, Len(s) - 1)) ELSE s
Trim(s) == TrimEnd(TrimStart(s))

\* audioBufferRef.current?.duration || 0
Duration(buf) == IF buf = Null THEN 0 ELSE buf.duration

\* The AudioBuffer generateSpeech(t, v) resolves with when it succeeds; text
\* and voice record what it was synthesized from, late (history) that text or
\* voice was edited while the call was in flight, afterStop (history) that
\* playback was stopped while the call was in flight.
Buffer(t, v, d) ==
  [text |-> t, voice |-> v, duration |-> d, late |-> FALSE, afterStop |-> FALSE]
SynthesisResults(t, v) == {Null} \cup {Buffer(t, v, d) : d \in Durations}

SessionInit ==
  /\ text = <<>>
  /\ voiceName = "Kore"
  /\ playbackSpeed = 10
  /\ isPlaying = FALSE
  /\ isLoading = FALSE
  /\ playbackPosition = 0
  /\ playbackStartedAt = 0
  /\ playbackOffsetAtStart = 0
  /\ lastGeneratedText = <<>>
  /\ lastGeneratedVoice = "null"
  /\ audioContext = FALSE
  /\ sourceRef = 0
  /\ audioBuffer = Null
  /\ currentTime = 0
  /\ sources = <<>>
  /\ calls = <<>>
  /\ fresh = FALSE
  /\ steps = 0

\* the session after the first render; the encoder has not been called
Init == SessionInit /\ wavInput = Null /\ wavBlob = Null

\* ------------------------------------------------------- playback sources
\* An AudioBufferSourceNode: "playing" after start(), "ended" once it has
\* stopped (by stop() or by reaching the end of its buffer) and its ended
\* event is still to be delivered, "fired" after onended has run.  pos is
\* the buffer offset the node emits, rate its playbackRate (tenths),
\* duration the length of its buffer; a node that has ended emits nothing
\* any more and these three are not kept for it.  halted records that stop()
\* ended it, stale that a newer source had been started when its onended
\* ran.
EndedSource(halted) ==
  [state |-> "ended", rate |-> 0, pos |-> 0, duration |-> 0,
   halted |-> halted, stale |-> FALSE]

FiredSource(stale, halted) ==
  [state |-> "fired", rate |-> 0, pos |-> 0, duration |-> 0,
   halted |-> halted, stale |-> stale]

\* a playing node that reached the end of its buffer ends
Settle(s) ==
  IF s.state = "playing" /\ s.pos >= s.duration THEN EndedSource(FALSE) ELSE s

NewSource(buf, rate, startOffset) ==
  Settle([state |-> "playing", rate |-> rate, pos |-> startOffset,
          duration |-> buf.duration, halted |-> FALSE, stale |-> FALSE])

\* (a stop that leaves the node running)
LeaveSource(srcs, id) == srcs

\* source.stop(); a node that already ended is left as it is
StopSource(srcs, id) ==
  [srcs EXCEPT ![id] = IF @.state = "playing" THEN EndedSource(TRUE) ELSE @]

\* ---------------------------------------------------------------- closures
\* The React state a handler reads from its render
Closure == [isPlaying |-> isPlaying, playbackPosition |-> playbackPosition,
            playbackSpeed |-> playbackSpeed]

\* The playback state and refs a handler writes; a handler works on such a
\* record and commits it when it returns
Current == [isPlaying |-> isPlaying, playbackPosition |-> playbackPosition,
            sources |-> sources, sourceRef |-> sourceRef,
            playbackStartedAt |-> playbackStartedAt,
            playbackOffsetAtStart |-> playbackOffsetAtStart,
            audioContext |-> audioContext]

Commit(p) ==
  /\ isPlaying' = p.isPlaying
  /\ playbackPosition' = p.playbackPosition
  /\ sources' = p.sources
  /\ sourceRef' = p.sourceRef
  /\ playbackStartedAt' = p.playbackStartedAt
  /\ playbackOffsetAtStart' = p.playbackOffsetAtStart
  /\ audioContext' = p.audioContext

\* getCurrentOffset of the render c, reading the refs p and the buffer buf
GetCurrentOffset(c, p, buf) ==
  IF ~c.isPlaying \/ ~p.audioContext THEN c.playbackPosition
  ELSE Min(p.playbackOffsetAtStart
             + (currentTime - p.playbackStartedAt) * c.playbackSpeed,
           Duration(buf))

\* what getCurrentOffset of the current render returns now
CurrentOffset == GetCurrentOffset(Closure, Current, audioBuffer)

\* (a stop that leaves the stopped node in sourceRef)
StopAudioKeepsRef(resetPosition, c, p, buf) ==
  LET q == IF p.sourceRef # 0
           THEN [p EXCEPT
                   !.playbackPosition =
                      IF ~resetPosition THEN GetCurrentOffset(c, p, buf) ELSE @,
                   !.sources = StopSource(p.sources, p.sourceRef)]
           ELSE p
  IN [q EXCEPT !.playbackPosition = IF resetPosition THEN 0 ELSE @,
               !.isPlaying = FALSE]

\* stopAudio(resetPosition)
StopAudio(resetPosition, c, p, buf) ==
  LET q == IF p.sourceRef # 0
           THEN [p EXCEPT
                   !.playbackPosition =
                      IF ~resetPosition THEN GetCurrentOffset(c, p, buf) ELSE @,
                   !.sources = StopSource(p.sources, p.sourceRef),
                   !.sourceRef = 0]
           ELSE p
  IN [q EXCEPT !.playbackPosition = IF resetPosition THEN 0 ELSE @,
               !.isPlaying = FALSE]

\* (the start time of the previous segment kept instead)
StaleStartClock == playbackStartedAt

\* playbackStartedAtRef.current = ctx.currentTime
StartClock == currentTime

\* (a start that does not look whether a buffer is loaded)
StartPlaybackUnguarded(offset, c, p, buf) ==
  LET q == StopAudio(FALSE, c, p, buf)
      startOffset == Max(0, Min(offset, Duration(buf)))
  IN [q EXCEPT
        !.audioContext = TRUE,
        !.sources = Append(q.sources,
                           Settle([state |-> "playing", rate |-> c.playbackSpeed,
                                   pos |-> startOffset, duration |-> Duration(buf),
                                   halted |-> FALSE, stale |-> FALSE])),
        !.sourceRef = Len(q.sources) + 1,
        !.playbackStartedAt = StartClock,
        !.playbackOffsetAtStart = startOffset,
        !.isPlaying = TRUE]

\* startPlayback(offset)
StartPlayback(offset, c, p, buf) ==
  IF buf = Null THEN p
  ELSE LET q == StopAudio(FALSE, c, p, buf)
           startOffset == Max(0, Min(offset, buf.duration))
       IN [q EXCEPT
             !.audioContext = TRUE,
             !.sources = Append(q.sources, NewSource(buf, c.playbackSpeed, startOffset)),
             !.sourceRef = Len(q.sources) + 1,
             !.playbackStartedAt = StartClock,
             !.playbackOffsetAtStart = startOffset,
             !.isPlaying = TRUE]

\* a source can still be created within the bound
CanCreateSource == Len(sources) < MaxSources
CanCall == Len(calls) < MaxInFlight

\* one more event of the session, within the bound
\* one event of the session (the encoder is specified apart, see SpecWav)
Step == steps < MaxSteps /\ steps' = steps + 1 /\ UNCHANGED encoder

\* The closure an awaited generateSpeech call resumes in.  The continuation
\* of playAudio reads text, config.voiceName and, through startPlayback and
\* stopAudio, playbackPosition and config.playbackSpeed (isPlaying is false
\* in it); the continuation of handleExport reads text and config.voiceName
\* only, so the other two are not kept for it.  edited (history) records
\* that text or voice was edited after the call was made.
PlayCall == [kind |-> "play", text |-> text, voiceName |-> voiceName,
             playbackPosition |-> playbackPosition,
             playbackSpeed |-> playbackSpeed, edited |-> FALSE,
             stopped |-> FALSE]
ExportCall == [kind |-> "export", text |-> text, voiceName |-> voiceName,
               playbackPosition |-> 0, playbackSpeed |-> 0, edited |-> FALSE,
               stopped |-> FALSE]

\* history of an edit of text or voice
MarkEdited == [i \in DOMAIN calls |-> [calls[i] EXCEPT !.edited = TRUE]]
\* history of a call that resolved with buffer
\* history of a stop of playback while the calls cs are in flight
MarkStopped(cs) ==
  IF isPlaying THEN [i \in DOMAIN cs |-> [cs[i] EXCEPT !.stopped = TRUE]] ELSE cs

Landed(call, buffer) ==
  [buffer EXCEPT !.late = call.edited, !.afterStop = call.stopped]
FreshAfter(call) == IF call.edited THEN fresh ELSE TRUE

RemoveAt(s, i) == SubSeq(s, 1, i - 1) \o SubSeq(s, i + 1, Len(s))

\* ---------------------------------------------------------------- handlers
\* the cache test of playAudio
PlayNeedsSynthesis ==
  text # lastGeneratedText \/ voiceName # lastGeneratedVoice \/ audioBuffer = Null

\* playAudio up to its await (the play button is disabled while isLoading)
PlayAudio ==
  /\ ~isLoading
  /\ IF Trim(text) = <<>> THEN UNCHANGED vars
     ELSE IF isPlaying THEN
       /\ Step
       /\ Commit(StopAudio(FALSE, Closure, Current, audioBuffer))
       /\ calls' = MarkStopped(calls)
       /\ UNCHANGED <<settings, cache, isLoading, currentTime>>
     ELSE IF PlayNeedsSynthesis THEN
       /\ Step
       /\ CanCall
       /\ isLoading' = TRUE
       /\ calls' = Append(calls, PlayCall)
       /\ UNCHANGED <<settings, cache, playback, currentTime>>
     ELSE
       /\ Step
       /\ CanCreateSource
       /\ Commit(StartPlayback(playbackPosition, Closure, Current, audioBuffer))
       /\ UNCHANGED <<settings, cache, synthesis, currentTime>>

\* (the fingerprint taken from the text of the current render instead)
LiveText(call) == text

\* the text and voice the continuation of a call writes as fingerprint
ClosureText(call) == call.text
ClosureVoice(call) == call.voiceName

\* playAudio after its await: generateSpeech resolved with buffer
PlayAudioResume(i, buffer) ==
  /\ Step
  /\ calls[i].kind = "play"
  /\ calls' = RemoveAt(calls, i)
  /\ isLoading' = FALSE
  /\ IF buffer # Null THEN
       LET c == [isPlaying |-> FALSE,
                 playbackPosition |-> calls[i].playbackPosition,
                 playbackSpeed |-> calls[i].playbackSpeed]
       IN /\ CanCreateSource
          /\ audioBuffer' = Landed(calls[i], buffer)
          /\ lastGeneratedText' = ClosureText(calls[i])
          /\ lastGeneratedVoice' = ClosureVoice(calls[i])
          /\ Commit(StartPlayback(0, c, Current, buffer))
          /\ fresh' = FreshAfter(calls[i])
     ELSE UNCHANGED <<cache, playback, fresh>>
  /\ UNCHANGED <<text, voiceName, playbackSpeed, currentTime>>

\* the cache test of handleExport
ExportNeedsSynthesis == text # lastGeneratedText \/ audioBuffer = Null

\* handleExport up to its await, or to its end when the buffer is reused
\* (the download of the encoded buffer changes nothing of the session)
HandleExport ==
  /\ Step
  /\ IF ExportNeedsSynthesis THEN
       /\ CanCall
       /\ isLoading' = TRUE
       /\ calls' = Append(calls, ExportCall)
     ELSE
       UNCHANGED synthesis
  /\ UNCHANGED <<settings, cache, playback, currentTime>>

\* handleExport after its await
HandleExportResume(i, buffer) ==
  /\ Step
  /\ calls[i].kind = "export"
  /\ calls' = RemoveAt(calls, i)
  /\ audioBuffer' = IF buffer # Null THEN Landed(calls[i], buffer) ELSE buffer
  /\ lastGeneratedText' = ClosureText(calls[i])
  /\ lastGeneratedVoice' = ClosureVoice(calls[i])
  /\ isLoading' = FALSE
  /\ fresh' = IF buffer # Null THEN FreshAfter(calls[i]) ELSE fresh
  /\ UNCHANGED <<text, voiceName, playbackSpeed, playback, currentTime>>

\* (the new position without the floor at 0)
SkipTargetNoFloor(current, seconds, buf) == Min(current + seconds, buf.duration)

\* newPos of handleSkip
SkipTarget(current, seconds, buf) ==
  Max(0, Min(current + seconds, buf.duration))

\* (a skip that restarts playback also when stopped)
SkipAlwaysRestarts == TRUE

\* if (isPlaying) of handleSkip
SkipRestarts == isPlaying

\* handleSkip(seconds)
HandleSkip(seconds) ==
  IF audioBuffer = Null THEN UNCHANGED vars
  ELSE LET current == GetCurrentOffset(Closure, Current, audioBuffer)
           newPos == SkipTarget(current, seconds, audioBuffer)
           p == [Current EXCEPT !.playbackPosition = newPos]
       IN /\ Step
          /\ SkipRestarts => CanCreateSource
          /\ Commit(IF SkipRestarts
                    THEN StartPlayback(newPos, Closure, p, audioBuffer)
                    ELSE p)
          /\ UNCHANGED <<settings, cache, synthesis, currentTime>>

\* (a stop that also drops the synthesis calls in flight)
StopButtonCancels ==
  /\ Step
  /\ Commit(StopAudio(TRUE, Closure, Current, audioBuffer))
  /\ calls' = <<>>
  /\ isLoading' = FALSE
  /\ UNCHANGED <<settings, cache, currentTime>>

\* the stop button: stopAudio(true)
StopButton ==
  /\ Step
  /\ Commit(StopAudio(TRUE, Closure, Current, audioBuffer))
  /\ calls' = MarkStopped(calls)
  /\ UNCHANGED <<settings, cache, isLoading, currentTime>>

\* sidebar "New File": setText(''); stopAudio(true)
NewFile ==
  /\ Step
  /\ text' = <<>>
  /\ Commit(StopAudio(TRUE, Closure, Current, audioBuffer))
  /\ calls' = MarkStopped(IF text # <<>> THEN MarkEdited ELSE calls)
  /\ fresh' = IF text # <<>> THEN FALSE ELSE fresh
  /\ UNCHANGED <<voiceName, playbackSpeed, cache, isLoading, currentTime>>

\* textarea onChange
SetText(t) ==
  /\ Step
  /\ t # text
  /\ text' = t
  /\ calls' = MarkEdited
  /\ fresh' = FALSE
  /\ UNCHANGED <<voiceName, playbackSpeed, cache, playback, isLoading, currentTime>>

\* voice select onChange
SetVoice(v) ==
  /\ Step
  /\ v # voiceName
  /\ voiceName' = v
  /\ calls' = MarkEdited
  /\ fresh' = FALSE
  /\ UNCHANGED <<text, playbackSpeed, cache, playback, isLoading, currentTime>>

\* playback speed slider onChange
SetPlaybackSpeed(newVal) ==
  /\ Step
  /\ newVal # playbackSpeed
  /\ playbackSpeed' = newVal
  /\ sources' = IF sourceRef # 0 /\ sources[sourceRef].state = "playing"
                THEN [sources EXCEPT ![sourceRef].rate = newVal]
                ELSE sources
  /\ UNCHANGED <<text, voiceName, fresh, cache, synthesis, currentTime, isPlaying,
                 playbackPosition, sourceRef, playbackStartedAt,
                 playbackOffsetAtStart, audioContext>>

\* the requestAnimationFrame callback
Update ==
  /\ Step
  /\ isPlaying
  /\ playbackPosition' = GetCurrentOffset(Closure, Current, audioBuffer)
  /\ UNCHANGED <<settings, cache, synthesis, currentTime, isPlaying, sources,
                 sourceRef, playbackStartedAt, playbackOffsetAtStart, audioContext>>

\* (a test that some source is active instead of this one)
IsAnySourceActive(id) == sourceRef # 0

\* the identity test of source.onended
IsActiveSource(id) == sourceRef = id

\* (the position left where playback ended)
EndPositionKept == playbackPosition

\* setPlaybackPosition(0) of source.onended
EndPosition == 0

\* the body of source.onended of source id
Deliver(id) ==
  /\ sources[id].state = "ended"
  /\ sources' = [sources EXCEPT
                   ![id] = FiredSource(id < Len(sources), sources[id].halted)]
  /\ IF IsActiveSource(id)
     THEN isPlaying' = FALSE /\ playbackPosition' = EndPosition
     ELSE UNCHANGED <<isPlaying, playbackPosition>>
  /\ UNCHANGED <<settings, cache, synthesis, currentTime, sourceRef,
                 playbackStartedAt, playbackOffsetAtStart, audioContext>>

\* source.onended of source id, delivered by the host after the source ended
OnEnded(id) == Step /\ Deliver(id)

\* the audio device: the context clock advances by one step and every
\* playing source emits rate seconds of its buffer
Emit ==
  /\ currentTime' = currentTime + 1
  /\ sources' = [id \in DOMAIN sources |->
                   IF sources[id].state = "playing"
                   THEN Settle([sources[id] EXCEPT
                                  !.pos = Min(@ + sources[id].rate, sources[id].duration)])
                   ELSE sources[id]]
  /\ UNCHANGED <<settings, cache, synthesis, isPlaying, playbackPosition,
                 sourceRef, playbackStartedAt, playbackOffsetAtStart, audioContext>>

Tick == Step /\ audioContext /\ currentTime < MaxClock /\ Emit

Next ==
  \/ PlayAudio
  \/ \E i \in DOMAIN calls :
       \E buffer \in SynthesisResults(calls[i].text, calls[i].voiceName) :
         PlayAudioResume(i, buffer)
  \/ HandleExport
  \/ \E i \in DOMAIN calls :
       \E buffer \in SynthesisResults(calls[i].text, calls[i].voiceName) :
         HandleExportResume(i, buffer)
  \/ \E seconds \in SkipSeconds : HandleSkip(seconds)
  \/ StopButton
  \/ NewFile
  \/ \E t \in Texts : SetText(t)
  \/ \E v \in Voices : SetVoice(v)
  \/ \E newVal \in Speeds : SetPlaybackSpeed(newVal)
  \/ Update
  \/ \E id \in DOMAIN sources : OnEnded(id)
  \/ Tick

Spec == Init /\ [][Next]_vars

(***************************************************************************)
(* The session with a device that keeps running.  In Spec every run ends   *)
(* after MaxSteps events; here the session takes up to LiveSteps events,   *)
(* and at any time, also after the last of them, the audio clock advances  *)
(* for as long as a source is emitting and the host delivers every pending *)
(* onended: a source emits until its buffer is exhausted, and the ended    *)
(* event of a node is dispatched once.  The clock is left alone when       *)
(* nothing plays, which keeps the state space finite.                      *)
(***************************************************************************)
DeviceClock ==
  /\ \E id \in DOMAIN sources : sources[id].state = "playing"
  /\ Emit
  /\ UNCHANGED <<steps, encoder>>

Callback(id) ==
  /\ id \in DOMAIN sources
  /\ Deliver(id)
  /\ UNCHANGED <<steps, encoder>>

NextLive ==
  \/ steps < LiveSteps /\ Next
  \/ DeviceClock
  \/ \E id \in DOMAIN sources : Callback(id)

SpecLive ==
  /\ Init /\ [][NextLive]_vars
  /\ WF_vars(DeviceClock)
  /\ \A id \in 1..MaxSources : WF_vars(Callback(id))

(***************************************************************************)
(* The WAV encoder of src/utils/audioExport.ts, a pure function of its     *)
(* buffer.  A buffer is its numberOfChannels, length (frames), sampleRate  *)
(* and channel data; a sample is a whole number of tenths (5 = 0.5), which *)
(* keeps every product with 0x8000 and 0x7fff exact.  The Blob is its      *)
(* sequence of bytes.  Shapes a real AudioBuffer cannot take (no channel,  *)
(* a channel shorter than length) are inputs too: the function is          *)
(* exported and its parameter is only typed.                               *)
(***************************************************************************)
\* the sample value 1.0, in tenths
FullScale == 10
WavSamples == {-20, -10, -1, 0, 5, 10, 20}
ChannelCounts == 0..2
SampleRates == {24000, 48000}

\* an AudioBuffer of the given shape and channel data
AudioBuffer(C, N, R, d) ==
  [numberOfChannels |-> C, length |-> N, sampleRate |-> R, channelData |-> d]

\* two channels of the four samples 0.0, 1.0, -1.0, 0.5 at 24 kHz
ExampleBuffer ==
  [numberOfChannels |-> 2, length |-> 4, sampleRate |-> 24000,
   channelData |-> <<<<0, 10, -10, 5>>, <<0, 10, -10, 5>>>>]

\* view.setUint16(pos, data, true)
SetUint16(data) == <<data % 256, (data \div 256) % 256>>

\* view.setUint32(pos, data, true)
SetUint32(data) ==
  <<data % 256, (data \div 256) % 256, (data \div 65536) % 256,
    (data \div 16777216) % 256>>

\* view.setInt16(pos, sample, true): two's complement, little endian
SetInt16(sample) == SetUint16(sample % 65536)

\* (rounding down instead of toward zero)
Floor(a, d) == a \div d

\* x | 0 of the quotient a / d: the fraction is dropped, toward zero
ToInt32(a, d) == IF a >= 0 THEN a \div d ELSE -((-a) \div d)

\* channels[i][offset]: <<sample>>, or <<>> (undefined) past the end
ChannelSample(channel, offset) ==
  IF offset + 1 \in DOMAIN channel THEN <<channel[offset + 1]>> ELSE <<>>

\* lines 41-42: clamp to [-1, 1], scale by 0x8000 or 0x7fff, | 0; an
\* undefined sample is NaN through Math.min and Math.max, and NaN | 0 = 0
Quantise(read) ==
  IF read = <<>> THEN 0
  ELSE LET sample == Max(-FullScale, Min(FullScale, read[1]))
       IN IF sample < 0 THEN ToInt32(sample * 32768, FullScale)
                        ELSE ToInt32(sample * 32767, FullScale)

\* the inner for loop: one sample of every channel at frame offset
RECURSIVE FrameBytes(_, _, _)
FrameBytes(buf, offset, i) ==
  IF i >= buf.numberOfChannels THEN <<>>
  ELSE SetInt16(Quantise(ChannelSample(buf.channelData[i + 1], offset)))
       \o FrameBytes(buf, offset, i + 1)

\* while (pos < length): frames are written until the container is full
RECURSIVE DataBytes(_, _, _, _)
DataBytes(buf, offset, pos, length) ==
  IF pos >= length THEN <<>>
  ELSE LET frame == FrameBytes(buf, offset, 0)
       IN frame \o DataBytes(buf, offset + 1, pos + Len(frame), length)

\* (the size of everything after the tag instead of after the field)
DataSizeWithField(length, pos) == length - pos

\* the data chunk size, length - pos - 4 with pos at the field itself
DataSize(length, pos) == length - pos - 4

\* the header: each field is written at pos, the bytes written so far
Header(buf, length) ==
  LET numOfChan == buf.numberOfChannels
      riff == SetUint32(1179011410) \o SetUint32(length - 8)
              \o SetUint32(1163280727)
      fmt == riff \o SetUint32(544501094) \o SetUint32(16) \o SetUint16(1)
             \o SetUint16(numOfChan) \o SetUint32(buf.sampleRate)
             \o SetUint32(buf.sampleRate * 2 * numOfChan)
             \o SetUint16(numOfChan * 2) \o SetUint16(16)
      data == fmt \o SetUint32(1635017060)
  IN data \o SetUint32(DataSize(length, Len(data)))

\* audioBufferToWav(buffer)
AudioBufferToWav(buf) ==
  LET length == buf.length * buf.numberOfChannels * 2 + 44
      header == Header(buf, length)
  IN [type |-> "audio/wav",
      bytes |-> header \o DataBytes(buf, 0, Len(header), length)]

\* audioBufferToMp3(buffer): the WAV container under another name
AudioBufferToMp3(buf) == AudioBufferToWav(buf)

ExportWav ==
  /\ wavBlob = Null
  /\ wavBlob' = AudioBufferToWav(wavInput)
  /\ UNCHANGED <<session, wavInput>>

ExportMp3 ==
  /\ wavBlob = Null
  /\ wavBlob' = AudioBufferToMp3(wavInput)
  /\ UNCHANGED <<session, wavInput>>

\* the encoder is handed the example buffer, or any buffer of up to
\* MaxFrames frames whose channels all hold length samples, or one whose
\* last channel is a sample short
InitWav ==
  /\ SessionInit
  /\ wavBlob = Null
  /\ \/ wavInput = ExampleBuffer
     \/ \E C \in ChannelCounts, N \in 0..MaxFrames, R \in SampleRates :
          \E d \in [1..C -> [1..N -> WavSamples]] :
            wavInput = AudioBuffer(C, N, R, d)
     \/ \E C \in ChannelCounts \ {0}, N \in 1..MaxFrames, R \in SampleRates :
          \E d \in [1..(C - 1) -> [1..N -> WavSamples]],
             short \in [1..(N - 1) -> WavSamples] :
            wavInput = AudioBuffer(C, N, R, d \o <<short>>)

NextWav == ExportWav \/ ExportMp3

SpecWav == InitWav /\ [][NextWav]_vars

\* ------------------------------------------------------------------ claims
\* C1: whenever isPlaying is true a buffer is held.
C1_PlayingHoldsBuffer == isPlaying => audioBuffer # Null

\* C2: whenever a buffer is held, the reported position (what
\* getCurrentOffset returns: the stored position when stopped, the computed
\* one when playing) lies in [0, duration of the held buffer].
C2_PositionWithinBuffer ==
  audioBuffer # Null =>
    /\ 0 <= CurrentOffset /\ CurrentOffset <= audioBuffer.duration
    /\ ~isPlaying => (0 <= playbackPosition /\ playbackPosition <= audioBuffer.duration)

\* C3: onended of a source that a newer start has superseded changes neither
\* isPlaying nor the position.
C3_StaleCompletionIgnored ==
  [][\A id \in DOMAIN sources :
       (OnEnded(id) /\ id < Len(sources)) =>
         (isPlaying' = isPlaying /\ playbackPosition' = playbackPosition)]_vars

\* C3 witness: the completion of a superseded source was delivered while its
\* successor was (and still is) the active, playing source.
C3_Witness ==
  \E id \in DOMAIN sources :
    /\ sources[id].state = "fired" /\ sources[id].stale
    /\ Len(sources) = id + 1 /\ sourceRef = id + 1
    /\ sources[sourceRef].state = "playing"
    /\ isPlaying /\ playbackPosition > 0

\* C4: while a source keeps playing, a change of the playback speed leaves
\* the computed offset where it was, and no step moves the computed offset
\* backward or forward by more than the elapsed device time times the larger
\* of the old and the new speed.
C4_SpeedChangeContinuous ==
  [][(isPlaying /\ isPlaying' /\ sourceRef' = sourceRef /\ audioBuffer' = audioBuffer) =>
       /\ playbackSpeed' # playbackSpeed => CurrentOffset' = CurrentOffset
       /\ CurrentOffset' >= CurrentOffset
       /\ CurrentOffset' - CurrentOffset
            <= (currentTime' - currentTime) * Max(playbackSpeed, playbackSpeed')]_vars

\* C5: a synthesis call that returns no buffer leaves the held buffer and the
\* fingerprints as they were.
C5_FailureLeavesSession ==
  [][\A i \in DOMAIN calls :
       (PlayAudioResume(i, Null) \/ HandleExportResume(i, Null)) =>
         UNCHANGED <<audioBuffer, lastGeneratedText, lastGeneratedVoice>>]_vars

\* C6: a play or export request whose (text, voice) differs from the
\* fingerprints in either component, or that finds no buffer, invokes
\* generateSpeech.
C6_MismatchSynthesizes ==
  [][( /\ \/ HandleExport
          \/ (PlayAudio /\ ~isPlaying /\ Trim(text) # <<>>)
       /\ \/ text # lastGeneratedText
          \/ voiceName # lastGeneratedVoice
          \/ audioBuffer = Null )
       => Len(calls') = Len(calls) + 1]_vars

\* C7: once a request with the current (text, voice) has synthesized and
\* neither was edited since, no request invokes generateSpeech.
C7_CacheHit == [][fresh => Len(calls') <= Len(calls)]_vars

\* C8: a held buffer was synthesized from exactly the recorded fingerprints.
C8_BufferMatchesFingerprint ==
  audioBuffer # Null =>
    /\ audioBuffer.text = lastGeneratedText
    /\ audioBuffer.voice = lastGeneratedVoice

\* C8 witness: the held buffer comes from a call during which text or voice
\* was edited, and another call is still in flight.
C8_Witness ==
  /\ audioBuffer # Null /\ audioBuffer.late
  /\ audioBuffer.text # text
  /\ calls # <<>>

\* C9: at most one generateSpeech call is in flight.
C9_SingleFlight == Len(calls) <= 1

\* C10: isLoading is true exactly while some generateSpeech call is in flight.
C10_BusySpansSynthesis == isLoading <=> calls # <<>>

\* the offset o clamped to the buffer buf
Clamped(o, buf) == IF o < 0 THEN 0 ELSE IF o > buf.duration THEN buf.duration ELSE o

\* a step that started a playback source
Started == Len(sources') = Len(sources) + 1

\* the state right after a start at offset o: playing from o, and
\* getCurrentOffset returns o
StartedAt(o) ==
  /\ isPlaying'
  /\ playbackOffsetAtStart' = o
  /\ CurrentOffset' = o
  /\ sources'[sourceRef'].state = "playing" => sources'[sourceRef'].pos = o

\* C11: every start (resume of play at the stored position, start at 0 after
\* a synthesis, restart of a skip) clamps the requested offset to
\* [0, duration], and getCurrentOffset evaluated right afterwards returns
\* exactly the clamped offset.
C11_StartAtClampedOffset ==
  [][/\ (PlayAudio /\ Started) => StartedAt(Clamped(playbackPosition, audioBuffer'))
     /\ \A seconds \in SkipSeconds :
          (HandleSkip(seconds) /\ Started) =>
            StartedAt(Clamped(CurrentOffset + seconds, audioBuffer'))
     /\ \A i \in DOMAIN calls : \A d \in Durations :
          PlayAudioResume(i, Buffer(calls[i].text, calls[i].voiceName, d)) =>
            StartedAt(Clamped(0, audioBuffer'))]_vars

\* C11 witness: playback has just been started at a nonzero offset at a
\* nonzero context time, and getCurrentOffset returns that offset.
C11_Witness ==
  /\ isPlaying /\ audioBuffer # Null
  /\ sourceRef # 0 /\ sources[sourceRef].state = "playing"
  /\ playbackStartedAt = currentTime /\ currentTime > 0
  /\ playbackOffsetAtStart > 0
  /\ sources[sourceRef].pos = playbackOffsetAtStart
  /\ CurrentOffset = playbackOffsetAtStart

\* C12: with a buffer loaded, skip(delta) moves the reported position to
\* max(0, min(currentOffset + delta, duration)).
C12_SkipClamps ==
  [][\A seconds \in SkipSeconds :
       (HandleSkip(seconds) /\ audioBuffer # Null) =>
         /\ CurrentOffset' = Clamped(CurrentOffset + seconds, audioBuffer)
         /\ CurrentOffset + seconds < 0 => CurrentOffset' = 0
         /\ CurrentOffset + seconds > audioBuffer.duration =>
              CurrentOffset' = audioBuffer.duration]_vars

\* C12 witness: no source was ever created and the stored position stands at
\* the end of a 20 s buffer: skips moved it there.
C12_Witness ==
  /\ audioBuffer # Null /\ audioBuffer.duration = 20
  /\ sources = <<>> /\ ~isPlaying
  /\ playbackPosition = audioBuffer.duration

\* the little-endian field of n bytes at byte offset at of the blob
Field(at, n) == SubSeq(wavBlob.bytes, at + 1, at + n)
Uint(at, n) ==
  LET b == Field(at, n)
  IN b[1] + 256 * b[2] + (IF n = 4 THEN 65536 * b[3] + 16777216 * b[4] ELSE 0)
Int16(at) == IF Uint(at, 2) >= 32768 THEN Uint(at, 2) - 65536 ELSE Uint(at, 2)

\* every channel of the buffer holds length samples, and there is one
WellShaped(buf) ==
  /\ buf.numberOfChannels > 0
  /\ \A c \in 1..buf.numberOfChannels : Len(buf.channelData[c]) = buf.length

\* C13: the blob is 44 + N*C*2 bytes long and its header reads RIFF,
\* 36 + N*C*2, WAVE, 'fmt ', 16, 1, C, R, R*C*2, C*2, 16, 'data', N*C*2; for
\* N = 4, C = 2, R = 24000 that is 60 bytes, byte rate 96000, block align 4
\* and data size 16.
C13_WavHeader ==
  wavBlob # Null =>
    LET N == wavInput.length
        C == wavInput.numberOfChannels
        R == wavInput.sampleRate
    IN /\ Len(wavBlob.bytes) = 44 + N * C * 2
       /\ Field(0, 4) = <<82, 73, 70, 70>>
       /\ Uint(4, 4) = 36 + N * C * 2
       /\ Field(8, 4) = <<87, 65, 86, 69>>
       /\ Field(12, 4) = <<102, 109, 116, 32>>
       /\ Uint(16, 4) = 16
       /\ Uint(20, 2) = 1
       /\ Uint(22, 2) = C
       /\ Uint(24, 4) = R
       /\ Uint(28, 4) = R * C * 2
       /\ Uint(32, 2) = C * 2
       /\ Uint(34, 2) = 16
       /\ Field(36, 4) = <<100, 97, 116, 97>>
       /\ Uint(40, 4) = N * C * 2
       /\ wavInput = ExampleBuffer =>
            /\ Len(wavBlob.bytes) = 60
            /\ Uint(28, 4) = 96000 /\ Uint(32, 2) = 4 /\ Uint(40, 4) = 16

\* C13 witness: the two-channel, four-frame buffer at 24 kHz was encoded.
C13_Witness == wavBlob # Null /\ wavInput = ExampleBuffer

\* the 16-bit value of a sample given in tenths: clamped to [-1, 1], times
\* 32768 below zero and 32767 otherwise, fraction dropped
Pcm16 ==
  [s \in WavSamples |->
     CASE s = -20 -> -32768
       [] s = -10 -> -32768
       [] s = -1 -> -3276
       [] s = 0 -> 0
       [] s = 5 -> 16383
       [] s = 10 -> 32767
       [] s = 20 -> 32767]

\* C14: in the blob of a well-shaped buffer the 16-bit sample at data index
\* f*C + c is the quantization of sample f of channel c, within
\* [-32768, 32767].
C14_Quantization ==
  (wavBlob # Null /\ WellShaped(wavInput)) =>
    LET C == wavInput.numberOfChannels
    IN \A f \in 0..(wavInput.length - 1) : \A c \in 0..(C - 1) :
         LET pcm == Int16(44 + 2 * (f * C + c))
         IN /\ pcm = Pcm16[wavInput.channelData[c + 1][f + 1]]
            /\ pcm >= -32768 /\ pcm <= 32767

\* C14 witness: a two-channel blob that interleaves a sample past full scale
\* with a small negative one.
C14_Witness ==
  /\ wavBlob # Null /\ WellShaped(wavInput)
  /\ wavInput.numberOfChannels = 2 /\ wavInput.length = 2
  /\ wavInput.channelData = <<<<20, -1>>, <<-20, 5>>>>
  /\ Int16(46) = -32768 /\ Int16(48) = -3276

\* C15: a buffer of invalid shape (no channel, or channels of different
\* lengths) yields no blob: never a header-only or partly filled container.
C15_InvalidShapeRejected ==
  ~WellShaped(wavInput) => wavBlob = Null

\* the sources that are emitting audio
Emitting == {id \in DOMAIN sources : sources[id].state = "playing"}

\* C16: at most one source emits at any time, and it is the active one:
\* each start stops the source it replaces first.
C16_SingleSource ==
  /\ Cardinality(Emitting) <= 1
  /\ \A id \in Emitting : sourceRef = id

\* C16 witness: the fourth event of the session started a second source
\* while the first was emitting (a skip during playback); the first one
\* was stopped and only the second emits.
C16_Witness ==
  /\ steps = 4 /\ Len(sources) = 2
  /\ sources[1].state = "ended" /\ sources[1].halted
  /\ Emitting = {2}

\* the session is stopped at position 0
StoppedAtZero == ~isPlaying /\ playbackPosition = 0

\* C17: onended of the source that is still the active one stops the
\* session at position 0; and with a running clock and delivered callbacks,
\* playback of a source that no stop, skip or new start replaces ends with
\* the session stopped at 0.
C17_NaturalEnd ==
  /\ [][\A id \in DOMAIN sources :
          (Deliver(id) /\ sourceRef = id) => StoppedAtZero']_vars
  /\ \A id \in 1..MaxSources :
       (isPlaying /\ sourceRef = id) ~> (StoppedAtZero \/ sourceRef # id)

\* C17 witness: the active source ran to its end, its onended was delivered
\* and the session is stopped at 0 with the source still in sourceRef.
C17_Witness ==
  /\ sourceRef # 0 /\ sources[sourceRef].state = "fired"
  /\ StoppedAtZero /\ currentTime > 0

\* the renders whose stopAudio can run now: the current one, and through
\* startPlayback the one of every playAudio waiting for its synthesis
CurrentRender == {Closure}
WaitingRenders ==
  {[isPlaying |-> FALSE, playbackPosition |-> calls[i].playbackPosition,
    playbackSpeed |-> calls[i].playbackSpeed] :
     i \in {j \in DOMAIN calls : calls[j].kind = "play"}}

\* what stop(resetToZero) has to leave, for stopAudio run from render c
StopsAsSpecified(resetPosition, c) ==
  LET q == StopAudio(resetPosition, c, Current, audioBuffer)
  IN /\ ~q.isPlaying
     /\ q.sourceRef = 0
     /\ \A id \in DOMAIN q.sources : q.sources[id].state # "playing"
     /\ (isPlaying /\ ~resetPosition) => q.playbackPosition = CurrentOffset
     /\ resetPosition => q.playbackPosition = 0
     /\ (~isPlaying /\ ~resetPosition) => q.playbackPosition = playbackPosition

\* C18: stop always leaves the session not playing and without an active
\* source; the stored position becomes the current offset (playing, no
\* reset), 0 (reset), or stays as it is (stopped, no reset).  stopAudio is
\* run with either flag from the current render and with
\* resetPosition = false from the continuation of a waiting playAudio.
C18_Stop ==
  /\ \A resetPosition \in BOOLEAN : \A c \in CurrentRender :
       StopsAsSpecified(resetPosition, c)
  /\ \A c \in WaitingRenders : StopsAsSpecified(FALSE, c)

\* C19: with a buffer loaded, a skip during playback stops the active
\* source and starts a new one at the clamped target, the session stays
\* playing (also when the target is the end of the buffer) and
\* getCurrentOffset returns the target; a skip while stopped moves the
\* stored position to the target and starts nothing.
C19_SkipRestarts ==
  [][\A seconds \in SkipSeconds :
       (HandleSkip(seconds) /\ audioBuffer # Null) =>
         LET target == Clamped(CurrentOffset + seconds, audioBuffer)
         IN IF isPlaying
            THEN /\ isPlaying'
                 /\ Len(sources') = Len(sources) + 1
                 /\ sourceRef' = Len(sources')
                 /\ sources'[sourceRef].state # "playing"
                 /\ sources'[sourceRef'].state = "playing" =>
                      sources'[sourceRef'].pos = target
                 /\ playbackOffsetAtStart' = target
                 /\ CurrentOffset' = target
            ELSE /\ ~isPlaying'
                 /\ sources' = sources /\ sourceRef' = sourceRef
                 /\ playbackPosition' = target]_vars

\* C19 witness: a skip during playback went to the end of the buffer: the
\* first source was stopped, the second one started at the duration and
\* ended at once, and the session is still playing at that offset.
C19_Witness ==
  /\ steps = 4 /\ Len(sources) = 2 /\ sourceRef = 2
  /\ sources[1].state = "ended" /\ sources[1].halted
  /\ sources[2].state = "ended" /\ ~sources[2].halted
  /\ isPlaying /\ audioBuffer # Null
  /\ playbackOffsetAtStart = audioBuffer.duration
  /\ CurrentOffset = audioBuffer.duration

\* the call as generateSpeech was given it: its kind, text and voice
Request(call) == <<call.kind, call.text, call.voiceName>>

\* C20: a stop of playback leaves every synthesis call in flight as it is,
\* and whenever a call returns a buffer, that buffer is stored with the text
\* and voice of its request as fingerprints, stops in between or not.
C20_StopKeepsSynthesis ==
  /\ [][(isPlaying /\ ~isPlaying' /\ sourceRef' = 0) =>
          /\ Len(calls') = Len(calls)
          /\ \A i \in DOMAIN calls : Request(calls'[i]) = Request(calls[i])
          /\ isLoading' = isLoading]_vars
  /\ [][\A i \in DOMAIN calls : \A d \in Durations :
          LET buffer == Buffer(calls[i].text, calls[i].voiceName, d)
          IN (PlayAudioResume(i, buffer) \/ HandleExportResume(i, buffer)) =>
               /\ audioBuffer' # Null
               /\ audioBuffer'.duration = d
               /\ audioBuffer'.text = calls[i].text
               /\ audioBuffer'.voice = calls[i].voiceName
               /\ lastGeneratedText' = calls[i].text
               /\ lastGeneratedVoice' = calls[i].voiceName]_vars

\* C20 witness: the buffer held was returned by a call during which
\* playback was stopped, and the fingerprints are those of its request.
C20_Witness ==
  /\ audioBuffer # Null /\ audioBuffer.afterStop
  /\ lastGeneratedText = audioBuffer.text
  /\ lastGeneratedVoice = audioBuffer.voice

\* the offsets startPlayback is given: 0, the stored position, a skip target
StartOffsets == 0..20

\* C21: with no buffer loaded, startPlayback at any offset leaves isPlaying,
\* the stored position, both anchors, sourceRef and the sources as they are,
\* and no skip changes anything of the playback state or the fingerprints.
C21_NoBufferNoOp ==
  audioBuffer = Null =>
    /\ \A offset \in StartOffsets :
         StartPlayback(offset, Closure, Current, audioBuffer) = Current
    /\ \A seconds \in SkipSeconds :
         ~ENABLED (HandleSkip(seconds) /\ <<playback, cache>>' # <<playback, cache>>)

\* C21 witness: no buffer is loaded while the stored position is not 0 (the
\* buffer was cleared after a skip), and a start there changes nothing.
C21_Witness ==
  /\ audioBuffer = Null /\ playbackPosition > 0
  /\ StartPlayback(playbackPosition, Closure, Current, audioBuffer) = Current

\* C22: while the session is playing, the buffer it holds is the one the
\* active source emits (a source records the duration of its buffer): no
\* export replaces or clears the buffer under a playing source.
C22_BufferIsPlayingBuffer ==
  (isPlaying /\ sourceRef # 0 /\ sources[sourceRef].state = "playing") =>
    /\ audioBuffer # Null
    /\ audioBuffer.duration = sources[sourceRef].duration

\* a run of the play button's handler that does not pause: afterwards the
\* session still plays, or a source is still active, or the stored position
\* is not the offset reached
TogglesWithoutPause ==
  PlayAudio /\ ~(/\ ~isPlaying'
                 /\ sourceRef' = 0
                 /\ \A id \in DOMAIN sources' : sources'[id].state # "playing"
                 /\ playbackPosition' = CurrentOffset)

\* C23: while the session is playing, pressing the play button pauses,
\* whatever the text is: the session stops playing, the source is stopped
\* and the stored position is the current offset.
C23_TogglePauses == isPlaying => ~ENABLED TogglesWithoutPause

\* C24: onended of a source that stopAudio halted changes nothing of the
\* session: isPlaying, the stored position, sourceRef, both anchors, the
\* buffer and the fingerprints stay as they are; a paused position is not
\* reset to 0.
C24_LateCompletionIgnored ==
  [][\A id \in DOMAIN sources :
       (Deliver(id) /\ sources[id].halted) =>
         UNCHANGED <<isPlaying, playbackPosition, sourceRef, playbackStartedAt,
                     playbackOffsetAtStart, cache>>]_vars

\* C24 witness: the first source played for one clock step and the session
\* was paused (six events: text, play, result, clock, pause, onended);
\* onended of the halted source has been delivered and the session is still
\* paused at the position it reached.
C24_Witness ==
  /\ steps = 6 /\ currentTime = 1
  /\ ~isPlaying /\ sourceRef = 0 /\ playbackPosition > 0
  /\ Len(sources) = 1
  /\ sources[1].state = "fired" /\ sources[1].halted

====
